---- MODULE Spec2Model ----
(***************************************************************************)
(* A model of simple_pool.go: the bounded connection pool connectionPool   *)
(* with its constructor NewPool and its methods Get, Put and Close.        *)
(*                                                                         *)
(* Every channel operation and every atomic.AddInt32 of the source is one  *)
(* step of the calling goroutine, so that the interleavings of concurrent  *)
(* Get/Put/Close calls are the ones the Go scheduler can produce.          *)
(***************************************************************************)
EXTENDS Integers, Sequences, FiniteSets, TLC

\* ---------------------------------------------------------------- bounds
MaxCapBound == 2      \* InitialCap, MaxIdle, MaxCap are drawn from 0..MaxCapBound
MaxWaitQueue == 2     \* Config.WaitQueue is drawn from 0..MaxWaitQueue
MaxRes == 3           \* at most this many resources exist at a time
MaxWrap == 2          \* an *idleConn is wrapped in another at most this deep
MaxTime == 2          \* the clock runs from 0 to MaxTime
MaxDebt == 2          \* openingConn is not driven below -MaxDebt
MaxCalls == 2         \* a caller with a finite program makes at most this many calls

Procs == {"a", "b", "c", "d"}   \* the goroutines calling Get, Put and Close

\* ---------------------------------------------------------------- values
\* A value of type `any` that the pool handles: resource `id` created by
\* Factory, behind `wrap` levels of *idleConn.  wrap = 0 is the resource
\* handle itself.  Nil is the nil interface value.
Nil == [id |-> 0, wrap |-> 0]

\* &idleConn{connection: conn, lastActiveTime: time.Now()}
NewIdleConn(conn, t) == [connection |-> conn, lastActiveTime |-> t]

\* The `any` value that holds a pointer to an idle entry (what Get returns
\* for an idle hit and what it passes to c.Close on expiry).
IdleConnPtr(e) == [id |-> e.connection.id, wrap |-> e.connection.wrap + 1]

\* connReq{idleConn: make(chan any)}: the channel is identified by `ch`.
NewConnReq(ch) == [abandon |-> FALSE, ch |-> ch]
\* The values of locals outside their scope (no call in progress).
NoReq == [abandon |-> FALSE, ch |-> 0]
NoIdleConn == NewIdleConn(Nil, 0)

VARIABLES
    cfg,          \* poolConfig *Config, as given to NewPool
    poolState,    \* "new" | "warming" | "ready" | "failed" : NewPool's progress
    newErr,       \* the error NewPool returned ("" for nil)
    warmI,        \* loop variable i of NewPool's warm-up loop
    openingConn,  \* connectionPool.openingConn
    idleQueue,    \* contents of channel connectionPool.idleQueue
    reqQueue,     \* contents of channel connectionPool.reqQueue
    made,         \* the resources Factory has created (ids; see NewRes)
    closed,       \* the values the Close function of the config was called with
    pc,           \* where each goroutine is in Get / Put
    held,         \* the values each goroutine got from Get and still holds
    conn,         \* Put's parameter conn
    req,          \* Get's local variable req
    popped,       \* Put's local variable req
    idleC,        \* Get's local variable idleC
    ret,          \* what each goroutine's last call returned
    now,          \* time.Now()
    panicked,     \* the process died of a run-time panic
    calls,        \* how many calls each goroutine's program still makes
    order,        \* history: the goroutines waiting in Get for a handoff, in
                  \* the order in which their requests entered reqQueue
    ticker,       \* the time.Ticker made by the call each goroutine is in or
                  \* last returned from: "none" | "running"
    trip          \* history: the Get-then-Put round trip under observation

vars == <<cfg, poolState, newErr, warmI, openingConn, idleQueue, reqQueue,
          made, closed, pc, held, conn, req, popped, idleC, ret, now,
          panicked, calls, order, ticker, trip>>

poolVars == <<cfg, poolState, newErr, warmI>>

\* ---------------------------------------------------------------- history
\* trip records one caller's Get followed at once by Put of the value Get
\* returned, with no step of any other caller in between: the pool as it was
\* when Get was called (openingConn, the resources in idleQueue), the value
\* Get returned, and whether Get evicted an expired entry on its way.
\* It is written by the actions and read only by the properties.
NoTrip == [owner |-> "none", phase |-> "none", open |-> 0, ids |-> << >>,
           val |-> Nil, evicted |-> FALSE]

IdsOf(q) == [i \in 1..Len(q) |-> q[i].connection.id]

\* Get is called by p while no other call is in progress.
TripStart(p) ==
    IF \A q \in Procs : pc[q] = "idle"
      THEN [owner |-> p, phase |-> "get", open |-> openingConn,
            ids |-> IdsOf(idleQueue), val |-> Nil, evicted |-> FALSE]
      ELSE NoTrip

\* A step of p: the trip goes on (as r) if it is p's, and is over otherwise.
TripStep(p, r) == IF trip.owner = p THEN r ELSE NoTrip

\* The sequence q without the goroutine p.
Without(q, p) == SelectSeq(q, LAMBDA x : x # p)

\* ---------------------------------------------------------------- callers
\* calls[p] = Forever: p goes on calling the pool for ever; otherwise p's
\* program makes calls[p] more calls.  Callers are outside the pool: which
\* calls they make, and how many, is theirs to choose.
Forever == MaxCalls + 1

CanCall(p) == calls[p] > 0

\* calls after p has started a call
Called(p) == IF calls[p] = Forever THEN calls ELSE [calls EXCEPT ![p] = @ - 1]

\* ---------------------------------------------------------------- Config
Configs ==
    [InitialCap : -1..MaxCapBound, MaxCap : 0..MaxCapBound, MaxIdle : 0..MaxCapBound,
     Factory : BOOLEAN, Close : BOOLEAN,
     IdleTimeout : 0..1, WaitTimeout : 0..1, WaitQueue : 0..MaxWaitQueue]

\* The capacity check without its comparison of MaxCap with MaxIdle.
ValidCapNoMaxCap(c) ==
    c.InitialCap <= c.MaxIdle /\ c.InitialCap >= 0

\* line 49: the capacity check of NewPool
ValidCap(c) ==
    c.InitialCap <= c.MaxIdle /\ c.MaxCap >= c.MaxIdle /\ c.InitialCap >= 0

\* The state before NewPool is called with a configuration of `configs`,
\* the callers' programs being of the lengths `programs`.
InitPool(configs, programs) ==
    /\ cfg \in configs
    /\ poolState = "new"
    /\ newErr = ""
    /\ warmI = 0
    /\ openingConn = 0
    /\ idleQueue = << >>
    /\ reqQueue = << >>
    /\ made = {}
    /\ closed = {}
    /\ pc = [p \in Procs |-> "idle"]
    /\ held = [p \in Procs |-> {}]
    /\ conn = [p \in Procs |-> Nil]
    /\ req = [p \in Procs |-> NoReq]
    /\ popped = [p \in Procs |-> NoReq]
    /\ idleC = [p \in Procs |-> NoIdleConn]
    /\ ret = [p \in Procs |-> "none"]
    /\ now = 0
    /\ panicked = FALSE
    /\ ticker = [p \in Procs |-> "none"]
    /\ calls = programs
    /\ order = << >>
    /\ trip = NoTrip

\* Two goroutines use the pool for ever, with any configuration.
Init ==
    InitPool(Configs, [p \in Procs |-> IF p \in {"a", "b"} THEN Forever ELSE 0])

\* Four goroutines use a pool of MaxCapBound resources whose wait queue has
\* room for all who wait; two of them make up to MaxCalls calls each, the
\* other two one call each.
FifoConfigs ==
    {c \in Configs : /\ c.MaxCap = MaxCapBound
                     /\ c.MaxIdle = c.InitialCap
                     /\ c.InitialCap \in {0, MaxCapBound}
                     /\ c.Factory /\ c.Close
                     /\ c.IdleTimeout = 1 /\ c.WaitTimeout = 1
                     /\ c.WaitQueue = MaxWaitQueue}

InitFifo ==
    InitPool(FifoConfigs, [p \in Procs |-> IF p \in {"a", "b"} THEN MaxCalls ELSE 1])

\* ---------------------------------------------------------------- Factory
\* Factory returns a resource distinct from every resource that exists.  A
\* resource that was passed to the Close function and that nothing refers to
\* any more is gone, and its id names the next resource created.
Referenced ==
    UNION {{v.id : v \in held[p]} \cup {conn[p].id, idleC[p].connection.id} : p \in Procs}
      \cup {idleQueue[i].connection.id : i \in 1..Len(idleQueue)}

ClosedIds == {v.id : v \in closed}

FreeIds == {i \in 1..MaxRes : i \notin made \/ (i \in ClosedIds /\ i \notin Referenced)}

NewRes == CHOOSE i \in FreeIds : \A j \in FreeIds : i <= j

\* c.factory() returning (conn, nil): the new resource is recorded.
FactoryMakes(i) ==
    /\ made' = made \cup {i}
    /\ closed' = {v \in closed : v.id # i}

\* ---------------------------------------------------------------- NewPool
\* lines 48-68: validation, then the pool object is built.
NewPoolValidate ==
    /\ poolState = "new"
    /\ IF ~ValidCap(cfg)
         THEN /\ poolState' = "failed" /\ newErr' = "InvalidCapSet"
              /\ UNCHANGED openingConn
         ELSE IF ~cfg.Factory
         THEN /\ poolState' = "failed" /\ newErr' = "InvalidFactorySet"
              /\ UNCHANGED openingConn
         ELSE IF ~cfg.Close
         THEN /\ poolState' = "failed" /\ newErr' = "InvalidCloseSet"
              /\ UNCHANGED openingConn
         ELSE /\ poolState' = "warming" /\ newErr' = ""
              /\ openingConn' = cfg.InitialCap
    /\ UNCHANGED <<calls, order>>
    /\ UNCHANGED <<ticker, trip, cfg, warmI, idleQueue, reqQueue, made, closed, pc, held,
                   conn, req, popped, idleC, ret, now, panicked>>

\* lines 70-79: one iteration of the warm-up loop, Factory succeeding.
NewPoolWarm ==
    /\ poolState = "warming"
    /\ warmI < cfg.InitialCap
    /\ FreeIds # {}
    /\ FactoryMakes(NewRes)
    /\ idleQueue' = Append(idleQueue, NewIdleConn([id |-> NewRes, wrap |-> 0], now))
    /\ warmI' = warmI + 1
    /\ UNCHANGED <<calls, order>>
    /\ UNCHANGED <<ticker, trip, cfg, poolState, newErr, openingConn, reqQueue, pc, held,
                   conn, req, popped, idleC, ret, now, panicked>>

\* lines 71-74: Factory fails in the warm-up loop; NewPool returns InitPoolErr.
NewPoolWarmFail ==
    /\ poolState = "warming"
    /\ warmI < cfg.InitialCap
    /\ poolState' = "failed"
    /\ newErr' = "InitPoolErr"
    /\ UNCHANGED <<calls, order>>
    /\ UNCHANGED <<ticker, trip, cfg, warmI, openingConn, idleQueue, reqQueue, made, closed, pc,
                   held, conn, req, popped, idleC, ret, now, panicked>>

\* line 80: the loop is over, NewPool returns the pool.
NewPoolReturn ==
    /\ poolState = "warming"
    /\ warmI >= cfg.InitialCap
    /\ poolState' = "ready"
    /\ UNCHANGED <<calls, order>>
    /\ UNCHANGED <<ticker, trip, cfg, newErr, warmI, openingConn, idleQueue, reqQueue, made,
                   closed, pc, held, conn, req, popped, idleC, ret, now, panicked>>

\* The pool exists and the process is alive: callers can run.
Running == poolState = "ready" /\ ~panicked

\* ---------------------------------------------------------------- Get
\* The expiry test off by one tick: an entry is kept one tick too long.
ExpiredLate(e) ==
    cfg.IdleTimeout > 0 /\ now - e.lastActiveTime > cfg.IdleTimeout + 1

\* line 92: time.Now().Sub(idleC.lastActiveTime) > c.idleTimeOut, under line 91
Expired(e) ==
    cfg.IdleTimeout > 0 /\ now - e.lastActiveTime > cfg.IdleTimeout

\* The admission test with its comparison inverted.
AdmittedInverted(n) == n > cfg.MaxCap

\* line 103: the admission test on the value atomic.AddInt32 returned
Admitted(n) == n < cfg.MaxCap

\* lines 86-101: the select on idleQueue (entered by the call or by `continue`).
GetSelect(p) ==
    /\ Running
    /\ pc[p] \in {"idle", "get_select"}
    /\ pc[p] = "idle" => CanCall(p)
    /\ IF idleQueue # << >>
         THEN LET e == Head(idleQueue) IN
              /\ e.connection.wrap < MaxWrap
              /\ idleQueue' = Tail(idleQueue)
              /\ IF Expired(e)
                   THEN /\ idleC' = [idleC EXCEPT ![p] = e]
                        /\ pc' = [pc EXCEPT ![p] = "get_evict"]
                        /\ ret' = [ret EXCEPT ![p] = "none"]
                        /\ UNCHANGED held
                   ELSE /\ held' = [held EXCEPT ![p] = @ \cup {IdleConnPtr(e)}]
                        /\ pc' = [pc EXCEPT ![p] = "idle"]
                        /\ ret' = [ret EXCEPT ![p] = "ok"]
                        /\ UNCHANGED idleC
         ELSE /\ pc' = [pc EXCEPT ![p] = "get_add"]
              /\ ret' = [ret EXCEPT ![p] = "none"]
              /\ UNCHANGED <<idleQueue, idleC, held>>
    /\ trip' = LET t == IF pc[p] = "idle" THEN TripStart(p) ELSE TripStep(p, trip) IN
               IF t.owner # p THEN t
               ELSE IF pc'[p] = "idle"
                 THEN [t EXCEPT !.phase = "held", !.val = IdleConnPtr(Head(idleQueue))]
               ELSE IF pc'[p] = "get_evict" THEN [t EXCEPT !.evicted = TRUE]
               ELSE t
    /\ ticker' = IF pc[p] = "idle" THEN [ticker EXCEPT ![p] = "none"] ELSE ticker
    /\ calls' = IF pc[p] = "idle" THEN Called(p) ELSE calls
    /\ UNCHANGED order
    /\ UNCHANGED <<poolVars, openingConn, reqQueue, made, closed, conn, req,
                   popped, now, panicked>>

\* lines 166-173: connectionPool.Close(conn): its effect on the pool.
PoolClose(v) ==
    /\ openingConn > -MaxDebt
    /\ openingConn' = openingConn - 1
    /\ closed' = closed \cup {v}

\* lines 94-95: the expired entry is closed, then `continue`.
GetEvict(p) ==
    /\ Running
    /\ pc[p] = "get_evict"
    /\ PoolClose(IdleConnPtr(idleC[p]))
    /\ idleC' = [idleC EXCEPT ![p] = NoIdleConn]
    /\ pc' = [pc EXCEPT ![p] = "get_select"]
    /\ trip' = TripStep(p, trip)
    /\ UNCHANGED <<calls, order>>
    /\ UNCHANGED <<ticker, poolVars, idleQueue, reqQueue, made, held, conn, req, popped,
                   ret, now, panicked>>

\* line 103: atomic.AddInt32(&c.openingConn, 1) and the test of its result.
GetAdd(p) ==
    /\ Running
    /\ pc[p] = "get_add"
    /\ openingConn' = openingConn + 1
    /\ pc' = [pc EXCEPT ![p] = IF Admitted(openingConn + 1)
                                 THEN "get_factory" ELSE "get_dec"]
    /\ trip' = TripStep(p, trip)
    /\ UNCHANGED <<calls, order>>
    /\ UNCHANGED <<ticker, poolVars, idleQueue, reqQueue, made, closed, held, conn, req,
                   popped, idleC, ret, now, panicked>>

\* line 105: return c.factory(), Factory succeeding.
GetFactory(p) ==
    /\ Running
    /\ pc[p] = "get_factory"
    /\ FreeIds # {}
    /\ FactoryMakes(NewRes)
    /\ held' = [held EXCEPT ![p] = @ \cup {[id |-> NewRes, wrap |-> 0]}]
    /\ ret' = [ret EXCEPT ![p] = "ok"]
    /\ pc' = [pc EXCEPT ![p] = "idle"]
    /\ trip' = TripStep(p, [trip EXCEPT !.phase = "held", !.val = [id |-> NewRes, wrap |-> 0]])
    /\ UNCHANGED <<calls, order>>
    /\ UNCHANGED <<ticker, poolVars, openingConn, idleQueue, reqQueue, conn, req,
                   popped, idleC, now, panicked>>

\* line 105: return c.factory(), Factory failing.
GetFactoryFail(p) ==
    /\ Running
    /\ pc[p] = "get_factory"
    /\ ret' = [ret EXCEPT ![p] = "FactoryErr"]
    /\ pc' = [pc EXCEPT ![p] = "idle"]
    /\ trip' = NoTrip
    /\ UNCHANGED <<calls, order>>
    /\ UNCHANGED <<ticker, poolVars, openingConn, idleQueue, reqQueue, made, closed, held, conn, req,
                   popped, idleC, now, panicked>>

\* make(chan any), line 112: a channel distinct from every channel in use.
ChansInUse ==
    {req[p].ch : p \in Procs} \cup {popped[p].ch : p \in Procs}
      \cup {reqQueue[i].ch : i \in 1..Len(reqQueue)}

NewChan == CHOOSE c \in 1..(Cardinality(ChansInUse) + 1) :
              /\ c \notin ChansInUse
              /\ \A d \in 1..(c - 1) : d \in ChansInUse

\* lines 108-114: the compensating decrement, the new connReq, the ticker.
\* time.NewTicker panics on a non-positive interval.
GetDec(p) ==
    /\ Running
    /\ pc[p] = "get_dec"
    /\ openingConn' = openingConn - 1
    /\ req' = [req EXCEPT ![p] = NewConnReq(NewChan)]
    /\ IF cfg.WaitTimeout <= 0
         THEN /\ panicked' = TRUE
              /\ pc' = [pc EXCEPT ![p] = "panic"]
         ELSE /\ pc' = [pc EXCEPT ![p] = "get_enq"]
              /\ UNCHANGED panicked
    /\ trip' = TripStep(p, trip)
    /\ ticker' = IF cfg.WaitTimeout <= 0 THEN ticker ELSE [ticker EXCEPT ![p] = "running"]
    /\ UNCHANGED <<calls, order>>
    /\ UNCHANGED <<poolVars, idleQueue, reqQueue, made, closed, held, conn,
                   popped, idleC, ret, now>>

\* The enqueue with the capacity test off by one: the send goes through
\* while the buffer is full.
GetEnqueueOverfull(p) ==
    /\ Running
    /\ pc[p] = "get_enq"
    /\ Len(reqQueue) <= cfg.WaitQueue
    /\ reqQueue' = Append(reqQueue, req[p])
    /\ pc' = [pc EXCEPT ![p] = "get_wait"]
    /\ trip' = TripStep(p, trip)
    /\ order' = Append(order, p)
    /\ UNCHANGED calls
    /\ UNCHANGED <<ticker, poolVars, openingConn, idleQueue, made, closed, held, conn,
                   req, popped, idleC, ret, now, panicked>>

\* The enqueue at the front of the queue instead of the back.
GetEnqueueAtFront(p) ==
    /\ Running
    /\ pc[p] = "get_enq"
    /\ Len(reqQueue) < cfg.WaitQueue
    /\ reqQueue' = <<req[p]>> \o reqQueue
    /\ pc' = [pc EXCEPT ![p] = "get_wait"]
    /\ trip' = TripStep(p, trip)
    /\ order' = Append(order, p)
    /\ UNCHANGED calls
    /\ UNCHANGED <<ticker, poolVars, openingConn, idleQueue, made, closed, held, conn,
                   req, popped, idleC, ret, now, panicked>>

\* lines 115-117: c.reqQueue <- req, the only case of its select: a copy of
\* req goes into the buffer once there is room.
GetEnqueue(p) ==
    /\ Running
    /\ pc[p] = "get_enq"
    /\ Len(reqQueue) < cfg.WaitQueue
    /\ reqQueue' = Append(reqQueue, req[p])
    /\ pc' = [pc EXCEPT ![p] = "get_wait"]
    /\ trip' = TripStep(p, trip)
    /\ order' = Append(order, p)
    /\ UNCHANGED calls
    /\ UNCHANGED <<ticker, poolVars, openingConn, idleQueue, made, closed, held, conn,
                   req, popped, idleC, ret, now, panicked>>

\* lines 121-124: the ticker fires; abandon is set in Get's own copy of req,
\* which goes out of scope as Get returns (the copy in reqQueue is untouched).
GetTimeout(p) ==
    /\ Running
    /\ pc[p] = "get_wait"
    /\ ticker[p] = "running"
    /\ req' = [req EXCEPT ![p] = NoReq]
    /\ ret' = [ret EXCEPT ![p] = "GetConnectionTimeout"]
    /\ pc' = [pc EXCEPT ![p] = "idle"]
    /\ trip' = NoTrip
    /\ order' = Without(order, p)
    /\ UNCHANGED calls
    /\ UNCHANGED <<ticker, poolVars, openingConn, idleQueue, reqQueue, made, closed, held,
                   conn, popped, idleC, now, panicked>>

\* ---------------------------------------------------------------- Put
\* A Get blocked in `c.reqQueue <- req` on an unbuffered reqQueue: a receive
\* takes its req directly.
BlockedSenders == IF cfg.WaitQueue = 0 THEN {g \in Procs : pc[g] = "get_enq"} ELSE {}

\* line 143: Put's test of the flag of the request it received
Abandoned(r) == r.abandon

\* Put(nil) with the nil check after the overflow decrement.
PutNilDecrements(p) ==
    /\ Running
    /\ pc[p] = "idle"
    /\ CanCall(p)
    /\ openingConn > -MaxDebt
    /\ openingConn' = openingConn - 1
    /\ ret' = [ret EXCEPT ![p] = "ConnectionIsNull"]
    /\ trip' = NoTrip
    /\ ticker' = [ticker EXCEPT ![p] = "none"]
    /\ calls' = Called(p)
    /\ UNCHANGED order
    /\ UNCHANGED <<poolVars, idleQueue, reqQueue, made, closed, pc,
                   held, conn, req, popped, idleC, now, panicked>>

\* lines 133-136: Put(nil).
PutNil(p) ==
    /\ Running
    /\ pc[p] = "idle"
    /\ CanCall(p)
    /\ ret' = [ret EXCEPT ![p] = "ConnectionIsNull"]
    /\ trip' = NoTrip
    /\ ticker' = [ticker EXCEPT ![p] = "none"]
    /\ calls' = Called(p)
    /\ UNCHANGED order
    /\ UNCHANGED <<poolVars, openingConn, idleQueue, reqQueue, made, closed, pc,
                   held, conn, req, popped, idleC, now, panicked>>

\* lines 133-148: Put(v) of a held value, up to the outcome of the select at
\* Try (entered by the call or by `goto Try`).
PutTry(p) ==
    /\ Running
    /\ pc[p] \in {"idle", "put_try"}
    /\ pc[p] = "idle" => CanCall(p)
    /\ \E v \in (IF pc[p] = "idle" THEN held[p] ELSE {conn[p]}) :
         /\ conn' = [conn EXCEPT ![p] = v]
         /\ held' = [held EXCEPT ![p] = @ \ {v}]
    /\ ret' = [ret EXCEPT ![p] = "none"]
    /\ IF reqQueue # << >>
         THEN /\ popped' = [popped EXCEPT ![p] = Head(reqQueue)]
              /\ reqQueue' = Tail(reqQueue)
              /\ pc' = [pc EXCEPT ![p] = IF Abandoned(Head(reqQueue))
                                           THEN "put_try" ELSE "put_send"]
              /\ UNCHANGED order
         ELSE IF BlockedSenders # {}
         THEN \E g \in BlockedSenders :
                /\ popped' = [popped EXCEPT ![p] = req[g]]
                /\ pc' = [pc EXCEPT ![g] = "get_wait",
                                    ![p] = IF Abandoned(popped'[p])
                                             THEN "put_try" ELSE "put_send"]
                /\ order' = Append(order, g)
                /\ UNCHANGED reqQueue
         ELSE /\ pc' = [pc EXCEPT ![p] = "put_idle"]
              /\ UNCHANGED <<popped, reqQueue, order>>
    /\ trip' = IF pc[p] = "idle"
               THEN IF trip.owner = p /\ trip.phase = "held" /\ conn'[p] = trip.val
                      THEN [trip EXCEPT !.phase = "put"] ELSE NoTrip
               ELSE TripStep(p, trip)
    /\ ticker' = IF pc[p] = "idle" THEN [ticker EXCEPT ![p] = "none"] ELSE ticker
    /\ calls' = IF pc[p] = "idle" THEN Called(p) ELSE calls
    /\ UNCHANGED <<poolVars, openingConn, idleQueue, made, closed, req, idleC,
                   now, panicked>>

\* The handoff that also leaves the value in the idle queue when there is
\* room (the send of line 147 falling through to the select of line 150).
PutHandoffAlsoIdles(p) ==
    /\ Running
    /\ pc[p] = "put_send"
    /\ \E g \in Procs :
         /\ pc[g] = "get_wait"
         /\ req[g].ch = popped[p].ch
         /\ held' = [held EXCEPT ![g] = @ \cup {conn[p]}]
         /\ ret' = [ret EXCEPT ![g] = "ok", ![p] = "nil"]
         /\ pc' = [pc EXCEPT ![g] = "idle", ![p] = "idle"]
         /\ req' = [req EXCEPT ![g] = NoReq]
    /\ idleQueue' = IF Len(idleQueue) < cfg.MaxIdle
                      THEN Append(idleQueue, NewIdleConn(conn[p], now))
                      ELSE idleQueue
    /\ conn' = [conn EXCEPT ![p] = Nil]
    /\ popped' = [popped EXCEPT ![p] = NoReq]
    /\ trip' = NoTrip
    /\ order' = Without(order, CHOOSE g \in Procs : pc[g] = "get_wait" /\ req[g].ch = popped[p].ch)
    /\ UNCHANGED calls
    /\ UNCHANGED <<ticker, poolVars, openingConn, reqQueue, made, closed,
                   idleC, now, panicked>>

\* lines 147 and 119-120: req.idleConn <- conn meets conn := <-req.idleConn
\* of the Get that waits on the same (unbuffered) channel; Put returns nil
\* (line 162) and Get returns conn.
PutHandoff(p) ==
    /\ Running
    /\ pc[p] = "put_send"
    /\ \E g \in Procs :
         /\ pc[g] = "get_wait"
         /\ req[g].ch = popped[p].ch
         /\ held' = [held EXCEPT ![g] = @ \cup {conn[p]}]
         /\ ret' = [ret EXCEPT ![g] = "ok", ![p] = "nil"]
         /\ pc' = [pc EXCEPT ![g] = "idle", ![p] = "idle"]
         /\ req' = [req EXCEPT ![g] = NoReq]
    /\ conn' = [conn EXCEPT ![p] = Nil]
    /\ popped' = [popped EXCEPT ![p] = NoReq]
    /\ trip' = NoTrip
    /\ order' = Without(order, CHOOSE g \in Procs : pc[g] = "get_wait" /\ req[g].ch = popped[p].ch)
    /\ UNCHANGED calls
    /\ UNCHANGED <<ticker, poolVars, openingConn, idleQueue, reqQueue, made, closed,
                   idleC, now, panicked>>

\* The select of lines 150-157 with the insertion left out: Put returns nil
\* and the value is in no queue.
PutIdleDrops(p) ==
    /\ Running
    /\ pc[p] = "put_idle"
    /\ ret' = [ret EXCEPT ![p] = "nil"]
    /\ pc' = [pc EXCEPT ![p] = "idle"]
    /\ conn' = [conn EXCEPT ![p] = Nil]
    /\ trip' = TripStep(p, [trip EXCEPT !.phase = "done"])
    /\ UNCHANGED <<calls, order>>
    /\ UNCHANGED <<ticker, poolVars, openingConn, idleQueue, reqQueue, made, closed, held,
                   req, popped, idleC, now, panicked>>

\* lines 150-157: the select on idleQueue of the default branch.
PutIdle(p) ==
    /\ Running
    /\ pc[p] = "put_idle"
    /\ IF Len(idleQueue) < cfg.MaxIdle
         THEN /\ idleQueue' = Append(idleQueue, NewIdleConn(conn[p], now))
              /\ ret' = [ret EXCEPT ![p] = "nil"]
              /\ pc' = [pc EXCEPT ![p] = "idle"]
              /\ conn' = [conn EXCEPT ![p] = Nil]
         ELSE /\ pc' = [pc EXCEPT ![p] = "put_dec"]
              /\ UNCHANGED <<idleQueue, ret, conn>>
    /\ trip' = TripStep(p, IF pc'[p] = "idle" THEN [trip EXCEPT !.phase = "done"]
                                               ELSE trip)
    /\ UNCHANGED <<calls, order>>
    /\ UNCHANGED <<ticker, poolVars, openingConn, reqQueue, made, closed, held, req,
                   popped, idleC, now, panicked>>

\* line 158: atomic.AddInt32(&c.openingConn, -1).
PutDec(p) ==
    /\ Running
    /\ pc[p] = "put_dec"
    /\ openingConn > -MaxDebt
    /\ openingConn' = openingConn - 1
    /\ pc' = [pc EXCEPT ![p] = "put_close"]
    /\ trip' = TripStep(p, trip)
    /\ UNCHANGED <<calls, order>>
    /\ UNCHANGED <<ticker, poolVars, idleQueue, reqQueue, made, closed, held, conn, req,
                   popped, idleC, ret, now, panicked>>

\* line 159: return c.Close(conn).
PutClose(p) ==
    /\ Running
    /\ pc[p] = "put_close"
    /\ PoolClose(conn[p])
    /\ ret' = [ret EXCEPT ![p] = "nil"]
    /\ pc' = [pc EXCEPT ![p] = "idle"]
    /\ conn' = [conn EXCEPT ![p] = Nil]
    /\ trip' = TripStep(p, [trip EXCEPT !.phase = "done"])
    /\ UNCHANGED <<calls, order>>
    /\ UNCHANGED <<ticker, poolVars, idleQueue, reqQueue, made, held, req, popped,
                   idleC, now, panicked>>

\* ---------------------------------------------------------------- Close
\* lines 166-173: a caller discards a value it holds.
Close(p) ==
    /\ Running
    /\ pc[p] = "idle"
    /\ CanCall(p)
    /\ \E v \in held[p] :
         /\ PoolClose(v)
         /\ held' = [held EXCEPT ![p] = @ \ {v}]
    /\ ret' = [ret EXCEPT ![p] = "nil"]
    /\ trip' = NoTrip
    /\ ticker' = [ticker EXCEPT ![p] = "none"]
    /\ calls' = Called(p)
    /\ UNCHANGED order
    /\ UNCHANGED <<poolVars, idleQueue, reqQueue, made, pc, conn, req, popped,
                   idleC, now, panicked>>

\* ---------------------------------------------------------------- time
\* The clock advances.  Only line 92 reads it, and only when IdleTimeout > 0.
Tick ==
    /\ Running
    /\ cfg.IdleTimeout > 0
    /\ now < MaxTime
    /\ now' = now + 1
    /\ UNCHANGED <<calls, order>>
    /\ UNCHANGED <<ticker, trip, poolVars, openingConn, idleQueue, reqQueue, made, closed, pc,
                   held, conn, req, popped, idleC, ret, panicked>>

Next ==
    \/ NewPoolValidate
    \/ NewPoolWarm
    \/ NewPoolWarmFail
    \/ NewPoolReturn
    \/ Tick
    \/ \E p \in Procs :
         \/ GetSelect(p)
         \/ GetEvict(p)
         \/ GetAdd(p)
         \/ GetFactory(p)
         \/ GetFactoryFail(p)
         \/ GetDec(p)
         \/ GetEnqueue(p)
         \/ GetTimeout(p)
         \/ PutNil(p)
         \/ PutTry(p)
         \/ PutHandoff(p)
         \/ PutIdle(p)
         \/ PutDec(p)
         \/ PutClose(p)
         \/ Close(p)

Spec == Init /\ [][Next]_vars

SpecFifo == InitFifo /\ [][Next]_vars

\* The scheduler runs every goroutine that can take a step, and a ticker
\* that was started fires: each step inside a Get call is weakly fair.
\* (Whether a caller calls Get, Put or Close at all is up to the caller.)
GetStep(p) ==
    \/ GetEvict(p)
    \/ GetAdd(p)
    \/ GetFactory(p)
    \/ GetFactoryFail(p)
    \/ GetDec(p)
    \/ GetEnqueue(p)
    \/ GetTimeout(p)

FairSpec == Init /\ [][Next]_vars /\ \A p \in Procs : WF_vars(GetStep(p))

\* ================================================================ claims
\* The resources that exist: created by Factory, and no value that holds
\* them was passed to the Close function.
Live == made \ ClosedIds

\* The Gets blocked on their handoff channel (lines 118-119).
Waiting == {g \in Procs : pc[g] = "get_wait"}

\* The Gets between the increment of line 103 and the decrement of line 108.
InWindow == {p \in Procs : pc[p] = "get_dec"}

\* No Get, Put or Close call is in progress.
Quiescent == \A p \in Procs : pc[p] = "idle"

\* C1: after any interleaving of Get, Put and Close calls (callers passing
\* only values they hold), the number of live resources (created by Factory
\* and not yet passed to the Close function) does not exceed MaxCap.
C1_LiveWithinMaxCap ==
    (poolState = "ready" /\ Quiescent) => Cardinality(Live) <= cfg.MaxCap

\* C2: Put never suspends: whenever a Put is at its handoff send
\* (req.idleConn <- conn), the Get that receives on that channel is there
\* to take the value, so the send completes.
C2_PutNeverBlocks ==
    \A p \in Procs :
        (Running /\ pc[p] = "put_send")
            => \E g \in Waiting : req[g].ch = popped[p].ch

\* C3: with a positive WaitTimeout, a Get that was denied admission
\* eventually returns (with a resource or with the timeout error), whatever
\* the state of the wait queue and even if no Put is ever called.
C3_DeniedGetReturns ==
    \A p \in Procs :
        (cfg.WaitTimeout > 0 /\ pc[p] = "get_dec") ~> (pc[p] = "idle")

\* C4: when exactly one Get is blocked waiting and Put is called with a
\* non-nil resource, the Put takes that waiter's request for the handoff
\* (so that the waiter returns with the resource, which goes neither to the
\* idle queue nor to the Close function).
C4_PutServesTheWaiter ==
    [][\A p \in Procs : \A g \in Procs :
          (pc[p] = "idle" /\ pc'[p] \in {"put_try", "put_send", "put_idle"}
             /\ Waiting = {g})
          => (pc'[p] = "put_send" /\ popped'[p].ch = req[g].ch)]_vars

\* C5: a Get that finds the idle queue empty is admitted (goes on to call
\* Factory) whenever the post-increment openingConn is <= MaxCap.
C5_AdmittedUpToMaxCap ==
    [][\A p \in Procs :
          (pc[p] = "get_add" /\ pc'[p] # "get_add" /\ openingConn' <= cfg.MaxCap)
          => pc'[p] = "get_factory"]_vars

\* C6: when the Factory call of an admitted Get fails, openingConn is
\* decremented back before the error is returned.
C6_FactoryFailureReleasesSlot ==
    [][\A p \in Procs :
          (pc[p] = "get_factory" /\ ret'[p] = "FactoryErr")
          => openingConn' = openingConn - 1]_vars

\* C7: when a Factory call fails during NewPool's warm-up, every resource
\* the warm-up created has been passed to the Close function by the time
\* NewPool returns InitPoolErr.
C7_WarmupFailureClosesAll ==
    newErr = "InitPoolErr" => \A i \in made : [id |-> i, wrap |-> 0] \in closed

\* C8: openingConn is >= 0 in every reachable state.
C8_ActiveCountNonNegative == openingConn >= 0

\* C9 as stated: openingConn <= MaxCap in every reachable state.
C9_ActiveCountAtMostMaxCap ==
    poolState = "ready" => openingConn <= cfg.MaxCap

\* C9 as amended: openingConn exceeds MaxCap by at most the number of Gets
\* that have incremented it (line 103), were denied, and have not yet taken
\* their compensating decrement (line 108); with no Get in that window,
\* openingConn <= MaxCap.
C9_ActiveCountWithinWindow ==
    poolState = "ready" => openingConn <= cfg.MaxCap + Cardinality(InWindow)

\* Two goroutines are inside the window at once, openingConn = MaxCap + 2.
C9_Witness ==
    /\ poolState = "ready"
    /\ Cardinality(InWindow) = 2
    /\ openingConn = cfg.MaxCap + 2

\* The resources in a sequence of ids, as a set.
IdSet(ids) == {ids[i] : i \in 1..Len(ids)}

\* C10 as stated: a Get immediately followed by Put of the value it
\* returned, with no other activity, leaves openingConn and the idle queue
\* (its length and the resources in it) as they were before the Get, from
\* every starting state.
C10_RoundTripRestores ==
    trip.phase = "done" =>
        /\ openingConn = trip.open
        /\ Len(idleQueue) = Len(trip.ids)
        /\ IdSet(IdsOf(idleQueue)) = IdSet(trip.ids)

\* C10 as amended: when the Get is served from the idle queue by the first
\* entry it receives (no expired entry evicted, no resource created), the
\* round trip leaves openingConn and the length of the idle queue as they
\* were and the same resources in the queue: the entry that was at the head
\* is now at the tail, holding the value Get returned.
C10_RoundTripAfterIdleHit ==
    (trip.phase = "done" /\ trip.val.wrap > 0 /\ ~trip.evicted) =>
        /\ openingConn = trip.open
        /\ Len(idleQueue) = Len(trip.ids)
        /\ IdsOf(idleQueue) = Append(Tail(trip.ids), Head(trip.ids))
        /\ idleQueue[Len(idleQueue)].connection = trip.val

\* A round trip through an idle queue of two entries has just ended.
C10_Witness ==
    /\ trip.phase = "done"
    /\ trip.val.wrap > 0
    /\ ~trip.evicted
    /\ Len(trip.ids) = 2

\* C11: a Get served from the idle queue returns the resource handle that
\* the idle entry wraps (the value Factory produced, or the value a caller
\* passed to Put), not the entry; and the Close function is called with
\* that handle when Get evicts an expired entry.
C11_IdleHitReturnsHandle ==
    [][\A p \in Procs :
          /\ (/\ pc[p] \in {"idle", "get_select"}
              /\ idleQueue # << >>
              /\ idleQueue' = Tail(idleQueue)
              /\ pc'[p] = "idle"
              /\ ret'[p] = "ok")
             => held'[p] = held[p] \cup {Head(idleQueue).connection}
          /\ (pc[p] = "get_evict" /\ pc'[p] = "get_select")
             => idleC[p].connection \in closed']_vars

\* The idle age of entry e exceeds a positive IdleTimeout (C12's condition).
IdleAgeExceeded(e) ==
    cfg.IdleTimeout > 0 /\ now - e.lastActiveTime > cfg.IdleTimeout

\* C12: a Get that receives from the idle queue an entry whose idle age
\* exceeds IdleTimeout (> 0) does not return it: it goes on to close it; the
\* closing step passes a value of the entry's resource to the Close
\* function, decrements openingConn by one and takes Get back to its select
\* on the idle queue (a fresher entry, or admission).
C12_ExpiredNeverReturned ==
    [][\A p \in Procs :
          /\ (/\ pc[p] \in {"idle", "get_select"}
              /\ idleQueue # << >>
              /\ idleQueue' = Tail(idleQueue)
              /\ (pc'[p] # pc[p] \/ held'[p] # held[p])
              /\ IdleAgeExceeded(Head(idleQueue)))
             => (pc'[p] = "get_evict" /\ held'[p] = held[p])
          /\ (pc[p] = "get_evict" /\ pc'[p] # "get_evict")
             => /\ openingConn' = openingConn - 1
                /\ \E v \in closed' : v.id = idleC[p].connection.id
                /\ pc'[p] = "get_select"
                /\ held'[p] = held[p]]_vars

\* A Get called alone evicted an expired entry and then returned an entry
\* from the idle queue that had not expired.
C12_Witness ==
    /\ trip.phase = "held"
    /\ trip.evicted
    /\ trip.val.wrap > 0

\* C13: Put(nil) returns ConnectionIsNull and leaves the idle queue, the
\* wait queue and openingConn as they were; neither Factory nor the Close
\* function is called.
C13_PutNilChangesNothing ==
    [][\A p \in Procs :
          (ret[p] # "ConnectionIsNull" /\ ret'[p] = "ConnectionIsNull")
          => UNCHANGED <<idleQueue, reqQueue, openingConn, made, closed>>]_vars

\* Put(nil) has returned its error while the pool holds an idle entry and a
\* request.
C13_Witness ==
    /\ \E p \in Procs : ret[p] = "ConnectionIsNull"
    /\ idleQueue # << >>
    /\ reqQueue # << >>

C15_QueuesWithinCapacity ==
    /\ Len(idleQueue) <= cfg.MaxIdle
    /\ Len(reqQueue) <= cfg.WaitQueue

\* Both queues are full at once (and neither has capacity 0).
C15_Witness ==
    /\ cfg.MaxIdle > 0 /\ Len(idleQueue) = cfg.MaxIdle
    /\ cfg.WaitQueue > 0 /\ Len(reqQueue) = cfg.WaitQueue

\* C16: a Put of a non-nil resource that finds no waiter and the idle queue
\* full calls the Close function on it once and decrements openingConn by
\* exactly one.  Observed on a Get that creates a resource (openingConn + 1)
\* followed at once by the Put of that resource which overflows: the two
\* calls together leave openingConn as it was.
C16_OverflowPutDecrementsOnce ==
    (/\ trip.phase = "done"
     /\ trip.val.wrap = 0
     /\ ~trip.evicted
     /\ trip.val \in closed)
    => openingConn = trip.open

\* C17: a Put that receives from the wait queue the request of a Get that
\* has already returned with the timeout error sees it as abandoned and
\* does not go on to the handoff send: a Put goes to its send only with the
\* request of a Get that is waiting on that channel.
C17_TimedOutRequestDropped ==
    [][\A p \in Procs :
          (pc[p] \in {"idle", "put_try"} /\ pc'[p] = "put_send")
          => \E g \in Procs : pc'[g] = "get_wait" /\ req'[g].ch = popped'[p].ch]_vars

\* C18: the ticker a Get creates to implement WaitTimeout (line 114) has
\* been stopped by the time that Get returns, whether it returns with a
\* handed-off resource or with the timeout error.
C18_TickerStoppedOnReturn ==
    \A p \in Procs : pc[p] = "idle" => ticker[p] # "running"

\* C19 as stated: among the Gets that wait and have not timed out, the one
\* whose request entered the wait queue first is the first to be handed a
\* resource: a handoff goes to the head of `order`.
C19_HandoffInEnqueueOrder ==
    [][\A g \in Procs :
          (pc[g] = "get_wait" /\ pc'[g] = "idle" /\ ret'[g] = "ok")
          => g = Head(order)]_vars

\* The requests in the wait queue, by channel.
QueuedChans == {reqQueue[i].ch : i \in 1..Len(reqQueue)}

\* C19 as amended: Puts take the requests out of the wait queue in the
\* order they entered it: when a Put receives the request of waiting Get h
\* and goes to its handoff send, no Get that waits and entered the queue
\* before h still has its request in the queue.
C19_RequestsTakenInEnqueueOrder ==
    [][\A p \in Procs : \A h \in Procs :
          (/\ pc[p] \in {"idle", "put_try"}
           /\ pc'[p] = "put_send"
           /\ pc'[h] = "get_wait"
           /\ req'[h].ch = popped'[p].ch)
          => \A i \in 1..Len(order') : \A j \in 1..Len(order') :
                (i < j /\ order'[j] = h) => req'[order'[i]].ch \notin QueuedChans']_vars

\* Two Gets wait; a Put has taken the request of the first and is at its
\* handoff send while the request of the second is still in the queue.
C19_Witness ==
    /\ Len(order) >= 2
    /\ \E p \in Procs : pc[p] = "put_send" /\ popped[p].ch = req[order[1]].ch
    /\ req[order[2]].ch \in QueuedChans

\* The places where resource i is: a value a caller holds, the parameter of
\* a Put in progress (on its way to a waiter, to the idle queue or to the
\* Close function), the entry a Get is evicting, an entry of the idle queue.
HeldPlaces(i) == {<<p, v>> \in Procs \X UNION {held[q] : q \in Procs} :
                     v \in held[p] /\ v.id = i}
PutPlaces(i) == {p \in Procs : conn[p].id = i}
EvictPlaces(i) == {p \in Procs : idleC[p].connection.id = i}
IdlePlaces(i) == {k \in 1..Len(idleQueue) : idleQueue[k].connection.id = i}

Places(i) ==
    Cardinality(HeldPlaces(i)) + Cardinality(PutPlaces(i))
      + Cardinality(EvictPlaces(i)) + Cardinality(IdlePlaces(i))

\* C20: callers passing to Put only values they hold, every live resource
\* is in at most one place in every reachable state: held by one caller, or
\* once in the idle queue, or in one Put (or eviction) in progress.
C20_ResourceInOnePlace ==
    \A i \in Live : Places(i) <= 1

\* Two resources are live: one is on its way to the Get that waits for it
\* (the Put is at its handoff send) and the other is in the idle queue.
C20_Witness ==
    \E i \in Live : \E j \in Live \ {i} : \E p \in Procs : \E g \in Waiting :
        /\ pc[p] = "put_send"
        /\ conn[p].id = i
        /\ req[g].ch = popped[p].ch
        /\ IdlePlaces(j) # {}

====
